---- MODULE Spec2Model ----
(***************************************************************************)
(* Model of the command-line contact manager of src/hw#2.py: the Field     *)
(* validators (Phone, Birthday), Record, AddressBook, the command handlers *)
(* behind the input_error adapter, parse_input, the main loop and the      *)
(* pickle persistence.                                                     *)
(*                                                                         *)
(* A Python str is a sequence of one-character strings; a code point       *)
(* outside ASCII is written as its "U+XXXX" name and counts as one         *)
(* character.  An operation that may raise returns a record whose exc      *)
(* field names the exception ("none" when it returns normally).            *)
(***************************************************************************)
EXTENDS Integers, Sequences, FiniteSets, TLC

\* ------------------------------------------------------------------ bounds
\* most phones the records of the book hold together in the model
MaxPhones == 3

\* ----------------------------------------------------------- Python strings
AsciiDigits == <<"0", "1", "2", "3", "4", "5", "6", "7", "8", "9">>

AsciiDigitSet == {AsciiDigits[i] : i \in 1..Len(AsciiDigits)}

\* U+0663 ARABIC-INDIC DIGIT THREE (category Nd), U+00B2 SUPERSCRIPT TWO
\* (category No, Numeric_Type=Digit)
DecimalChars == AsciiDigitSet \cup {"U+0663"}

\* the characters for which str.isdigit() is true
DigitChars == DecimalChars \cup {"U+00B2"}

Whitespace == {" ", "\t"}

UpperChars == <<"A", "B", "C", "D", "E", "F", "G", "H", "I", "J", "K", "L", "M",
                "N", "O", "P", "Q", "R", "S", "T", "U", "V", "W", "X", "Y", "Z">>

LowerChars == <<"a", "b", "c", "d", "e", "f", "g", "h", "i", "j", "k", "l", "m",
                "n", "o", "p", "q", "r", "s", "t", "u", "v", "w", "x", "y", "z">>

\* str.isdigit(): non-empty and every character is a digit character
str_isdigit(s) == Len(s) > 0 /\ \A i \in 1..Len(s) : s[i] \in DigitChars

char_lower(c) ==
    IF \E i \in 1..Len(UpperChars) : UpperChars[i] = c
    THEN LowerChars[CHOOSE i \in 1..Len(UpperChars) : UpperChars[i] = c]
    ELSE c

\* str.lower()
str_lower(s) == [i \in 1..Len(s) |-> char_lower(s[i])]

RECURSIVE StripLeft(_)
StripLeft(s) ==
    IF s # <<>> /\ Head(s) \in Whitespace THEN StripLeft(Tail(s)) ELSE s

RECURSIVE StripRight(_)
StripRight(s) ==
    IF s # <<>> /\ s[Len(s)] \in Whitespace
    THEN StripRight(SubSeq(s, 1, Len(s) - 1)) ELSE s

\* str.strip()
str_strip(s) == StripRight(StripLeft(s))

RECURSIVE SplitFrom(_, _, _, _)
SplitFrom(s, i, cur, acc) ==
    IF i > Len(s)
    THEN (IF cur = <<>> THEN acc ELSE Append(acc, cur))
    ELSE IF s[i] \in Whitespace
         THEN SplitFrom(s, i + 1, <<>>, IF cur = <<>> THEN acc ELSE Append(acc, cur))
         ELSE SplitFrom(s, i + 1, Append(cur, s[i]), acc)

\* str.split() without arguments: runs of whitespace separate, no empty tokens
str_split(s) == SplitFrom(s, 1, <<>>, <<>>)

RECURSIVE str_join(_, _)
str_join(sep, parts) ==
    IF parts = <<>> THEN <<>>
    ELSE IF Len(parts) = 1 THEN parts[1]
    ELSE parts[1] \o sep \o str_join(sep, Tail(parts))

\* ------------------------------------------------------- results of a call
\* of a function that does not touch the book
Ok(v) == [exc |-> "none", ret |-> v]

Err(kind, msg) == [exc |-> kind, ret |-> msg]

\* of a command handler: the book as the handler left it goes with the result
Return(v, d) == [exc |-> "none", ret |-> v, data |-> d]

Raise(kind, msg, d) == [exc |-> kind, ret |-> msg, data |-> d]

NoneVal == [type |-> "None"]

PyStr(s) == [type |-> "str", s |-> s]

PyDate(y, m, d) == [type |-> "date", year |-> y, month |-> m, day |-> d]

\* ------------------------------------------------------------------ dates
IsLeap(y) == (y % 4 = 0) /\ ((y % 100 # 0) \/ (y % 400 = 0))

DaysInMonth(y, m) ==
    IF m = 2 THEN (IF IsLeap(y) THEN 29 ELSE 28)
    ELSE IF m \in {4, 6, 9, 11} THEN 30 ELSE 31

RECURSIVE DaysBeforeMonth(_, _)
DaysBeforeMonth(y, m) ==
    IF m = 1 THEN 0 ELSE DaysBeforeMonth(y, m - 1) + DaysInMonth(y, m - 1)

DaysBeforeYear(y) ==
    (y - 1) * 365 + ((y - 1) \div 4) - ((y - 1) \div 100) + ((y - 1) \div 400)

\* date.toordinal()
date_toordinal(d) == DaysBeforeYear(d.year) + DaysBeforeMonth(d.year, d.month) + d.day

\* date.weekday(): 0 = Monday .. 6 = Sunday
date_weekday(d) == (date_toordinal(d) + 6) % 7

\* a < b on dates
date_lt(a, b) == date_toordinal(a) < date_toordinal(b)

NextDay(d) ==
    IF d.day < DaysInMonth(d.year, d.month) THEN PyDate(d.year, d.month, d.day + 1)
    ELSE IF d.month < 12 THEN PyDate(d.year, d.month + 1, 1)
    ELSE PyDate(d.year + 1, 1, 1)

\* d + timedelta(days=n), n >= 0
RECURSIVE date_add_days(_, _)
date_add_days(d, n) == IF n = 0 THEN d ELSE date_add_days(NextDay(d), n - 1)

\* value of a run of decimal characters, as int() reads it
CharValue(c) ==
    IF c = "U+0663" THEN 3
    ELSE (CHOOSE i \in 1..Len(AsciiDigits) : AsciiDigits[i] = c) - 1

RECURSIVE IntOf(_)
IntOf(s) ==
    IF s = <<>> THEN 0
    ELSE IF s[Len(s)] \in Whitespace THEN IntOf(SubSeq(s, 1, Len(s) - 1))
    ELSE IF Head(s) \in Whitespace THEN IntOf(Tail(s))
    ELSE 10 * IntOf(SubSeq(s, 1, Len(s) - 1)) + CharValue(s[Len(s)])

\* n as exactly w ASCII digits, zero padded
RECURSIVE IntToChars(_, _)
IntToChars(n, w) ==
    IF w = 0 THEN <<>> ELSE Append(IntToChars(n \div 10, w - 1), AsciiDigits[(n % 10) + 1])

\* date.strftime("%Y.%m.%d")
date_strftime(d) ==
    IntToChars(d.year, 4) \o <<".">> \o IntToChars(d.month, 2) \o <<".">> \o IntToChars(d.day, 2)

OneToNine == AsciiDigitSet \ {"0"}

\* the %d, %m and %Y groups of the regular expression strptime builds
DayPattern(f) ==
    \/ Len(f) = 2 /\ f[1] = "3" /\ f[2] \in {"0", "1"}
    \/ Len(f) = 2 /\ f[1] \in {"1", "2"} /\ f[2] \in DecimalChars
    \/ Len(f) = 2 /\ f[1] = "0" /\ f[2] \in OneToNine
    \/ Len(f) = 1 /\ f[1] \in OneToNine
    \/ Len(f) = 2 /\ f[1] = " " /\ f[2] \in OneToNine

MonthPattern(f) ==
    \/ Len(f) = 2 /\ f[1] = "1" /\ f[2] \in {"0", "1", "2"}
    \/ Len(f) = 2 /\ f[1] = "0" /\ f[2] \in OneToNine
    \/ Len(f) = 1 /\ f[1] \in OneToNine

YearPattern(f) == Len(f) = 4 /\ \A i \in 1..4 : f[i] \in DecimalChars

DotPositions(s) == {i \in 1..Len(s) : s[i] = "."}

Min(S) == CHOOSE x \in S : \A y \in S : x <= y

\* datetime.strptime(value, "%d.%m.%Y").date(): the date, or ValueError
strptime(s) ==
    LET dots == DotPositions(s) IN
    IF Cardinality(dots) < 2 THEN Err("ValueError", "does not match format")
    ELSE
      LET d1 == Min(dots)
          d2 == Min(dots \ {d1})
          fd == SubSeq(s, 1, d1 - 1)
          fm == SubSeq(s, d1 + 1, d2 - 1)
          fy == SubSeq(s, d2 + 1, Len(s))
      IN IF ~(DayPattern(fd) /\ MonthPattern(fm) /\ YearPattern(fy))
         THEN Err("ValueError", "does not match format")
         ELSE IF IntOf(fy) < 1
         THEN Err("ValueError", "year is out of range")
         ELSE IF IntOf(fd) > DaysInMonth(IntOf(fy), IntOf(fm))
         THEN Err("ValueError", "day is out of range for month")
         ELSE Ok(PyDate(IntOf(fy), IntOf(fm), IntOf(fd)))

\* ------------------------------------------------------------ messages
MsgPhoneFormat == "Incorrect phone number format. Use 10 digits without spaces or other characters."

MsgDateFormat == "Wrong date format. Use DD.MM.YYYY"

MsgAddUsage == "Wrong number of arguments. Use: add [name] [phone]"

MsgChangeUsage == "Wrong number of arguments. Use: change [name] [new_phone]"

MsgShowUsage == "Wrong number of arguments. Use: show [name]"

MsgAddBirthdayUsage == "Wrong number of arguments. Use: add-birthday [name] [date]"

MsgShowBirthdayUsage == "Wrong number of arguments. Use: show-birthday [name]"

MsgNotFound == "Contact not found."

MsgAdded == "Contact added."

MsgUpdated == "Contact updated."

MsgChanged == "Contact successfully updated."

MsgBirthdayAdded == "Birthday successfully added."

MsgBirthdayNotSet == "No birthday set for the contact."

MsgNoBirthdays == "There are no contacts with birthdays in the address book."

MsgEmptyBook == "The contact list is empty."

MsgInvalidCommand == "Invalid command."

MsgContact == "Contact name: {}, phone: {}"

MsgContactLine == "{}: {}"

MsgBirthdayOf == "Birthday of contact {}: {}"

MsgWelcome == "Welcome to the assistant bot!"

MsgGoodbye == "Goodbye!"

MsgHello == "How can I help you?"

MsgHelp == "Available commands: ..."

\* a Python str built from a literal text and the values put in its holes
Format(lit, args) == [type |-> "str", lit |-> lit, args |-> args]

Literal(lit) == Format(lit, <<>>)

MsgLines == "{} joined by newlines"

ErrorMessages ==
    {MsgPhoneFormat, MsgDateFormat, MsgAddUsage, MsgChangeUsage, MsgShowUsage,
     MsgAddBirthdayUsage, MsgShowBirthdayUsage, MsgNotFound}

\* ------------------------------------------------------------- the fields
PhoneLen == 10

\* an object before its first attribute is assigned
NewObject == [value |-> NoneVal]

\* Field.__init__: self.value = value
Field_init(self, value) == [self EXCEPT !.value = value]

\* Name(name)
Name_init(value) == Field_init(NewObject, value)

\* the Phone.value setter: stores value, or raises and stores nothing
Phone_set_value(self, value) ==
    IF Len(value) = PhoneLen /\ str_isdigit(value)
    THEN Ok([self EXCEPT !.value = value])
    ELSE Err("ValueError", MsgPhoneFormat)

\* Phone(value): self.__value = None, then the setter
Phone_init(value) == Phone_set_value(NewObject, value)

\* Birthday(value): self.value = the parsed date, then Field.__init__(value)
Birthday_init(value) ==
    LET parsed == strptime(value) IN
    IF parsed.exc # "none" THEN Err("ValueError", MsgDateFormat)
    ELSE LET self1 == [NewObject EXCEPT !.value = parsed.ret]
             self2 == Field_init(self1, PyStr(value))
         IN Ok(self2)

\* ------------------------------------------------------------- Record
\* results of a Record method: the record as the method left it goes along
RecOk(v, r) == [exc |-> "none", ret |-> v, rec |-> r]

RecErr(kind, msg, r) == [exc |-> kind, ret |-> msg, rec |-> r]

\* Record(name)
Record_init(name) == [name |-> Name_init(name), phones |-> <<>>, birthday |-> NoneVal]

\* Record_add_phone with an assignment in place of the append
Record_add_phone_replacing(r, phone) ==
    LET p == Phone_init(phone) IN
    IF p.exc # "none" THEN RecErr(p.exc, p.ret, r)
    ELSE RecOk(NoneVal, [r EXCEPT !.phones = <<p.ret>>])

Record_add_phone(r, phone) ==
    LET p == Phone_init(phone) IN
    IF p.exc # "none" THEN RecErr(p.exc, p.ret, r)
    ELSE RecOk(NoneVal, [r EXCEPT !.phones = Append(@, p.ret)])

\* index of the first phone whose value is phone, 0 when there is none
FirstPhoneIndex(r, phone) ==
    LET hits == {i \in 1..Len(r.phones) : r.phones[i].value = phone}
    IN IF hits = {} THEN 0 ELSE Min(hits)

RemoveAt(s, i) == SubSeq(s, 1, i - 1) \o SubSeq(s, i + 1, Len(s))

Record_remove_phone(r, phone) ==
    LET i == FirstPhoneIndex(r, phone) IN
    IF i = 0 THEN RecOk(NoneVal, r)
    ELSE RecOk(NoneVal, [r EXCEPT !.phones = RemoveAt(@, i)])

Record_edit_phone(r, old_phone, new_phone) ==
    LET i == FirstPhoneIndex(r, old_phone) IN
    IF i = 0 THEN RecOk(NoneVal, r)
    ELSE LET p == Phone_set_value(r.phones[i], new_phone) IN
         IF p.exc # "none" THEN RecErr(p.exc, p.ret, r)
         ELSE RecOk(NoneVal, [r EXCEPT !.phones[i] = p.ret])

Record_add_birthday(r, birthday) ==
    LET b == Birthday_init(birthday) IN
    IF b.exc # "none" THEN RecErr(b.exc, b.ret, r)
    ELSE RecOk(NoneVal, [r EXCEPT !.birthday = b.ret])

\* --------------------------------------------------- AddressBook (UserDict)
\* self.data is a dict: a sequence of entries in insertion order
DictKeys(d) == {d[i].key : i \in 1..Len(d)}

DictHas(d, k) == k \in DictKeys(d)

DictIndex(d, k) == CHOOSE i \in 1..Len(d) : d[i].key = k

DictGet(d, k) == d[DictIndex(d, k)].val

\* DictSet without the look for an existing key
DictSet_appending(d, k, v) == Append(d, [key |-> k, val |-> v])

\* d[k] = v: an existing key keeps its place, a new key goes last
DictSet(d, k, v) ==
    IF DictHas(d, k) THEN [d EXCEPT ![DictIndex(d, k)].val = v]
    ELSE Append(d, [key |-> k, val |-> v])

\* del d[k]
DictDel(d, k) == RemoveAt(d, DictIndex(d, k))

AddressBook_add_record(d, record) == DictSet(d, record.name.value, record)

\* self.data.get(name)
AddressBook_find(d, name) == IF DictHas(d, name) THEN DictGet(d, name) ELSE NoneVal

AddressBook_delete(d, name) == IF DictHas(d, name) THEN DictDel(d, name) ELSE d

\* date.isoformat(), what str() of a date gives
date_isoformat(d) ==
    IntToChars(d.year, 4) \o <<"-">> \o IntToChars(d.month, 2) \o <<"-">> \o IntToChars(d.day, 2)

\* Field.__str__: str(self.value)
Field_str(self) ==
    IF self.value.type = "date" THEN date_isoformat(self.value) ELSE self.value.s

\* value.replace(year=y) of the value a Birthday holds
value_replace_year(v, y) ==
    IF v.type # "date"
    THEN Err("TypeError", "str.replace() takes no keyword arguments")
    ELSE IF v.month = 2 /\ v.day = 29 /\ ~IsLeap(y)
    THEN Err("ValueError", "day is out of range for month")
    ELSE Ok(PyDate(y, v.month, v.day))

RECURSIVE UpcomingLoop(_, _, _, _, _)
UpcomingLoop(d, i, days, today, upcoming_birthdays) ==
    IF i > Len(d) THEN Ok(upcoming_birthdays)
    ELSE
      LET name == d[i].key
          record == d[i].val
      IN IF record.birthday = NoneVal
         THEN UpcomingLoop(d, i + 1, days, today, upcoming_birthdays)
         ELSE
           LET r1 == value_replace_year(record.birthday.value, today.year) IN
           IF r1.exc # "none" THEN r1
           ELSE
             LET r2 == IF date_lt(r1.ret, today)
                       THEN value_replace_year(r1.ret, today.year + 1)
                       ELSE r1
             IN IF r2.exc # "none" THEN r2
                ELSE
                  LET birthday_this_year == r2.ret
                      delta == date_toordinal(birthday_this_year) - date_toordinal(today)
                      shifted ==
                        IF date_weekday(birthday_this_year) >= 5
                        THEN date_add_days(birthday_this_year,
                                           7 - date_weekday(birthday_this_year))
                        ELSE birthday_this_year
                  IN IF 0 <= delta /\ delta <= days
                     THEN UpcomingLoop(d, i + 1, days, today,
                            Append(upcoming_birthdays,
                                   [name |-> name,
                                    congratulation_date |-> date_strftime(shifted)]))
                     ELSE UpcomingLoop(d, i + 1, days, today, upcoming_birthdays)

\* AddressBook.get_upcoming_birthday(days), today being datetime.today().date()
AddressBook_get_upcoming_birthday(d, days, today) == UpcomingLoop(d, 1, days, today, <<>>)

\* ------------------------------------------------------- command handlers
\* the wrapper of input_error: KeyError, ValueError and IndexError become the
\* returned text, anything else propagates
input_error(r) ==
    IF r.exc \in {"KeyError", "ValueError", "IndexError"}
    THEN Return(Literal(r.ret), r.data)
    ELSE r

\* for phone in phones: record.add_phone(phone), record being the object
\* stored in the book under name
RECURSIVE AddPhonesLoop(_, _, _)
AddPhonesLoop(d, name, phones) ==
    IF phones = <<>> THEN Return(NoneVal, d)
    ELSE LET r == Record_add_phone(DictGet(d, name), Head(phones)) IN
         IF r.exc # "none" THEN Raise(r.exc, r.ret, d)
         ELSE AddPhonesLoop(DictSet(d, name, r.rec), name, Tail(phones))

add_contact_body(args, d) ==
    IF Len(args) < 2 THEN Raise("ValueError", MsgAddUsage, d)
    ELSE
      LET name == args[1]
          phones == Tail(args)
          record == AddressBook_find(d, name)
          d1 == IF record = NoneVal THEN AddressBook_add_record(d, Record_init(name)) ELSE d
          message == IF record = NoneVal THEN MsgAdded ELSE MsgUpdated
          r == AddPhonesLoop(d1, name, phones)
      IN IF r.exc # "none" THEN r ELSE Return(Literal(message), r.data)

add_contact(args, d) == input_error(add_contact_body(args, d))

\* change_contact appending the new phone to the list
change_contact_body_appending(args, d) ==
    IF Len(args) # 2 THEN Raise("ValueError", MsgChangeUsage, d)
    ELSE
      LET name == args[1]
          phone == args[2]
      IN IF ~DictHas(d, name) THEN Raise("KeyError", MsgNotFound, d)
         ELSE LET p == Phone_init(phone) IN
              IF p.exc # "none" THEN Raise(p.exc, p.ret, d)
              ELSE Return(Literal(MsgChanged),
                          DictSet(d, name, [DictGet(d, name) EXCEPT !.phones = Append(@, p.ret)]))

\* change_contact emptying the list before it validates the new phone
change_contact_body_clearing(args, d) ==
    IF Len(args) # 2 THEN Raise("ValueError", MsgChangeUsage, d)
    ELSE
      LET name == args[1]
          phone == args[2]
      IN IF ~DictHas(d, name) THEN Raise("KeyError", MsgNotFound, d)
         ELSE LET p == Phone_init(phone)
                  cleared == DictSet(d, name, [DictGet(d, name) EXCEPT !.phones = <<>>])
              IN IF p.exc # "none" THEN Raise(p.exc, p.ret, cleared)
                 ELSE Return(Literal(MsgChanged),
                             DictSet(d, name, [DictGet(d, name) EXCEPT !.phones = <<p.ret>>]))

change_contact_body(args, d) ==
    IF Len(args) # 2 THEN Raise("ValueError", MsgChangeUsage, d)
    ELSE
      LET name == args[1]
          phone == args[2]
      IN IF ~DictHas(d, name) THEN Raise("KeyError", MsgNotFound, d)
         ELSE LET p == Phone_init(phone) IN
              IF p.exc # "none" THEN Raise(p.exc, p.ret, d)
              ELSE Return(Literal(MsgChanged),
                          DictSet(d, name, [DictGet(d, name) EXCEPT !.phones = <<p.ret>>]))

change_contact(args, d) == input_error(change_contact_body(args, d))

PhoneStrings(record) == [i \in 1..Len(record.phones) |-> record.phones[i].value]

\* Record.__str__
Record_str(record) ==
    Format(MsgContact, <<record.name.value, str_join(<<";", " ">>, PhoneStrings(record))>>)

show_contacts_body(args, d) ==
    IF Len(args) # 1 THEN Raise("ValueError", MsgShowUsage, d)
    ELSE LET name == args[1] IN
         IF ~DictHas(d, name) THEN Raise("KeyError", MsgNotFound, d)
         ELSE Return(Record_str(DictGet(d, name)), d)

show_contacts(args, d) == input_error(show_contacts_body(args, d))

add_birthday_body(args, d) ==
    IF Len(args) # 2 THEN Raise("ValueError", MsgAddBirthdayUsage, d)
    ELSE
      LET name == args[1]
          birthday == args[2]
      IN IF ~DictHas(d, name) THEN Raise("KeyError", MsgNotFound, d)
         ELSE LET r == Record_add_birthday(DictGet(d, name), birthday) IN
              IF r.exc # "none" THEN Raise(r.exc, r.ret, d)
              ELSE Return(Literal(MsgBirthdayAdded), DictSet(d, name, r.rec))

add_birthday(args, d) == input_error(add_birthday_body(args, d))

show_birthday_body(args, d) ==
    IF Len(args) # 1 THEN Raise("ValueError", MsgShowBirthdayUsage, d)
    ELSE LET name == args[1] IN
         IF ~DictHas(d, name) THEN Raise("KeyError", MsgNotFound, d)
         ELSE LET birthday == DictGet(d, name).birthday IN
              IF birthday = NoneVal THEN Return(Format(MsgBirthdayNotSet, <<name>>), d)
              ELSE Return(Format(MsgBirthdayOf, <<name, Field_str(birthday)>>), d)

show_birthday(args, d) == input_error(show_birthday_body(args, d))

\* the (name, birthday value) lines of all_birthdays
RECURSIVE BirthdayLines(_)
BirthdayLines(d) ==
    IF d = <<>> THEN <<>>
    ELSE IF Head(d).val.birthday = NoneVal THEN BirthdayLines(Tail(d))
    ELSE <<Format(MsgContactLine, <<Head(d).key, Field_str(Head(d).val.birthday)>>)>>
         \o BirthdayLines(Tail(d))

all_birthdays_body(d) ==
    IF BirthdayLines(d) = <<>> THEN Return(Literal(MsgNoBirthdays), d)
    ELSE Return(Format(MsgLines, BirthdayLines(d)), d)

all_birthdays(d) == input_error(all_birthdays_body(d))

\* ConsoleView.display_contacts of the name -> phone strings mapping main builds
display_contacts(d) ==
    IF d = <<>> THEN <<Literal(MsgEmptyBook)>>
    ELSE [i \in 1..Len(d) |->
            Format(MsgContactLine, <<d[i].key, str_join(<<",", " ">>, PhoneStrings(d[i].val))>>)]

\* parse_input: cmd, *args = user_input.split(); cmd = cmd.strip().lower()
parse_input(user_input) ==
    LET tokens == str_split(user_input) IN
    IF tokens = <<>>
    THEN [exc |-> "ValueError", ret |-> "not enough values to unpack", cmd |-> <<>>, args |-> <<>>]
    ELSE [exc |-> "none", ret |-> "", cmd |-> str_lower(str_strip(Head(tokens))),
          args |-> Tail(tokens)]

\* ------------------------------------------------------------ persistence
\* pickle.dump(book): the book as a stream of frames, one record after another
RECURSIVE PhoneFrames(_)
PhoneFrames(phones) ==
    IF phones = <<>> THEN <<>>
    ELSE <<[tag |-> "phone", v |-> Head(phones).value]>> \o PhoneFrames(Tail(phones))

\* RecordFrames leaving the birthday out of the stream
RecordFrames_without_birthday(e) ==
    <<[tag |-> "record", key |-> e.key, name |-> e.val.name.value]>>
    \o PhoneFrames(e.val.phones)

RecordFrames(e) ==
    <<[tag |-> "record", key |-> e.key, name |-> e.val.name.value]>>
    \o PhoneFrames(e.val.phones)
    \o (IF e.val.birthday = NoneVal THEN <<>>
        ELSE <<[tag |-> "birthday", v |-> e.val.birthday.value]>>)

RECURSIVE pickle_dump(_)
pickle_dump(d) ==
    IF d = <<>> THEN <<>> ELSE RecordFrames(Head(d)) \o pickle_dump(Tail(d))

\* pickle.load: rebuilds the book frame by frame
RECURSIVE pickle_load_from(_, _)
pickle_load_from(frames, d) ==
    IF frames = <<>> THEN d
    ELSE
      LET f == Head(frames)
          n == Len(d)
      IN IF f.tag = "record"
         THEN pickle_load_from(Tail(frames),
                Append(d, [key |-> f.key,
                           val |-> [name |-> [value |-> f.name], phones |-> <<>>,
                                    birthday |-> NoneVal]]))
         ELSE IF f.tag = "phone"
         THEN pickle_load_from(Tail(frames),
                [d EXCEPT ![n].val.phones = Append(@, [value |-> f.v])])
         ELSE pickle_load_from(Tail(frames),
                [d EXCEPT ![n].val.birthday = [value |-> f.v]])

pickle_load(frames) == pickle_load_from(frames, <<>>)

NoFile == [tag |-> "no file"]

\* save_data(book): the file is opened "wb", its old content is gone
save_data(d) == [tag |-> "file", bytes |-> pickle_dump(d)]

\* load_data(): the pickled book, or a new AddressBook when there is no file
load_data(f) == IF f = NoFile THEN <<>> ELSE pickle_load(f.bytes)

\* ------------------------------------------------------------------ inputs
W_add == <<"a", "d", "d">>

W_change == <<"c", "h", "a", "n", "g", "e">>

W_show == <<"s", "h", "o", "w">>

W_all == <<"a", "l", "l">>

W_add_birthday == <<"a", "d", "d", "-", "b", "i", "r", "t", "h", "d", "a", "y">>

W_show_birthday == <<"s", "h", "o", "w", "-", "b", "i", "r", "t", "h", "d", "a", "y">>

W_all_birthdays == <<"a", "l", "l", "-", "b", "i", "r", "t", "h", "d", "a", "y", "s">>

W_close == <<"c", "l", "o", "s", "e">>

W_exit == <<"e", "x", "i", "t">>

W_hello == <<"h", "e", "l", "l", "o">>

NameAnn == <<"a", "n", "n">>

NameBob == <<"b", "o", "b">>

Names == {NameAnn, NameBob}

PhoneA == <<"0", "1", "2", "3", "4", "5", "6", "7", "8", "9">>

PhoneB == <<"9", "8", "7", "6", "5", "4", "3", "2", "1", "0">>

\* nine characters
PhoneShort == <<"1", "2", "3", "4", "5", "6", "7", "8", "9">>

\* ten characters, one of them a letter
PhoneAlpha == <<"0", "1", "2", "3", "4", "x", "6", "7", "8", "9">>

\* ten times SUPERSCRIPT TWO
PhoneSup == <<"U+00B2", "U+00B2", "U+00B2", "U+00B2", "U+00B2",
              "U+00B2", "U+00B2", "U+00B2", "U+00B2", "U+00B2">>

PlainPhones == {PhoneA, PhoneB, PhoneShort}

FullPhones == {PhoneA, PhoneSup, PhoneAlpha}

\* 01.03.1990: its 2024 occurrence is a Friday
DateFri == <<"0", "1", ".", "0", "3", ".", "1", "9", "9", "0">>

\* 2.3.1985, not zero padded: its 2024 occurrence is a Saturday
DateSat == <<"2", ".", "3", ".", "1", "9", "8", "5">>

\* no such day
DateUnreal == <<"3", "1", ".", "0", "2", ".", "1", "9", "9", "0">>

\* another pattern
DateIso == <<"1", "9", "9", "0", "-", "0", "3", "-", "0", "1">>

PlainDates == {DateFri, DateUnreal, DateIso}

FullDates == {DateFri, DateSat, DateIso}

Todays == {PyDate(2024, 2, 27), PyDate(2024, 3, 2), PyDate(2024, 3, 4)}

DaysChoices == {0, 7}

\* the line typed for a sequence of tokens
Line(tokens) == str_join(<<" ">>, tokens)

\* the phone arguments typed after the name of an add command: one or two
PhoneArgs(phones) == {<<p>> : p \in phones} \cup {<<p, q>> : p \in phones, q \in phones}

LinesFor(phones, dates) ==
    {Line(<<W_add, n>> \o ps) : n \in Names, ps \in PhoneArgs(phones)}
    \cup {Line(<<W_add>>)} \cup {Line(<<W_add, n>>) : n \in Names}
    \cup {Line(<<W_change, n, p>>) : n \in Names, p \in phones}
    \cup {Line(<<W_change, n>>) : n \in Names}
    \cup {Line(<<W_show, n>>) : n \in Names}
    \cup {Line(<<W_show>>), Line(<<W_all>>)}
    \cup {Line(<<W_add_birthday, n, b>>) : n \in Names, b \in dates}
    \cup {Line(<<W_add_birthday, n>>) : n \in Names}
    \cup {Line(<<W_show_birthday, n>>) : n \in Names}
    \cup {Line(<<W_show_birthday>>), Line(<<W_all_birthdays>>)}
    \cup {Line(<<W_close>>), Line(<<W_exit>>), <<"E", "x", "I", "T">>,
          <<" ", "C", "L", "O", "S", "E", " ">>}
    \cup {Line(<<W_hello>>), Line(<<<<"d", "e", "l">>, NameAnn>>)}
    \cup {<<>>, <<" ">>, <<" ", "\t", " ">>}

\* what the loop of main has after command, args = parse_input(user_input)
Typed(L) == {[line |-> l, parsed |-> parse_input(l)] : l \in L}

PlainLines == Typed(LinesFor(PlainPhones, PlainDates))

FullLines == Typed(LinesFor(FullPhones, FullDates))

SessionLines ==
    Typed({Line(<<W_add, NameAnn, PhoneA>>), Line(<<W_add, NameAnn, PhoneB>>),
     Line(<<W_add, NameBob, PhoneA>>), Line(<<W_add_birthday, NameAnn, DateFri>>),
     Line(<<W_exit>>), <<"C", "l", "o", "s", "e">>, <<" ">>})

\* -------------------------------------------------------------- the state
VARIABLES
    data,      \* the data of the AddressBook in memory
    file,      \* addressbook.pkl
    pc,        \* "off", "running", "exited" (after close/exit), "crashed"
    out,       \* what the last step printed through the view
    ret,       \* what the last direct call of a method returned or raised
    lastOp,    \* the last step taken and its inputs
    prevData   \* data before the last step

vars == <<data, file, pc, out, ret, lastOp, prevData>>

Op(op, line, args) ==
    [op |-> op, line |-> line, args |-> args, days |-> 0, today |-> NoneVal, pc0 |-> pc]

RECURSIVE TotalPhones(_)
TotalPhones(d) ==
    IF d = <<>> THEN 0 ELSE Len(Head(d).val.phones) + TotalPhones(Tail(d))

Fits(d) == TotalPhones(d) <= MaxPhones

Init ==
    /\ data = <<>>
    /\ file = NoFile
    /\ pc = "off"
    /\ out = <<>>
    /\ ret = Ok(NoneVal)
    /\ lastOp = Op("init", <<>>, <<>>)
    /\ prevData = <<>>

\* main(), up to its first prompt: book = load_data(), the welcome message
Main_begin ==
    /\ data' = load_data(file)
    /\ out' = <<Literal(MsgWelcome)>>
    /\ pc' = "running"
    /\ ret' = Ok(NoneVal)
    /\ lastOp' = Op("start", <<>>, <<>>)
    /\ prevData' = data
    /\ UNCHANGED file

\* the first run of the program
Main_start == pc = "off" /\ Main_begin

\* a later run of the program, after the previous one ended
Main_restart == pc \in {"exited", "crashed"} /\ Main_begin

\* one pass of the loop of main whose command is handled by a handler h:
\* the handler's text is displayed, an exception it lets through ends main
Handled(op, line, r) ==
    /\ Fits(r.data)
    /\ data' = r.data
    /\ out' = IF r.exc = "none" THEN <<r.ret>> ELSE <<>>
    /\ pc' = IF r.exc = "none" THEN "running" ELSE "crashed"
    /\ ret' = Ok(NoneVal)
    /\ lastOp' = Op(op, line.line, line.parsed.args)
    /\ prevData' = data
    /\ UNCHANGED file

\* one pass of the loop of main that only prints
Printed(op, line, lines) ==
    /\ out' = lines
    /\ ret' = Ok(NoneVal)
    /\ lastOp' = Op(op, line.line, line.parsed.args)
    /\ prevData' = data
    /\ UNCHANGED <<data, file, pc>>

Parsed(line, words) ==
    /\ pc = "running"
    /\ line.parsed.exc = "none"
    /\ line.parsed.cmd \in words

\* parse_input raises in main, outside every handler: main ends with the
\* traceback, nothing is saved
Main_unparsed(L) ==
    \E line \in L :
        /\ pc = "running"
        /\ line.parsed.exc # "none"
        /\ pc' = "crashed"
        /\ out' = <<>>
        /\ ret' = Ok(NoneVal)
        /\ lastOp' = Op("unparsed", line.line, <<>>)
        /\ prevData' = data
        /\ UNCHANGED <<data, file>>

Main_exit(L) ==
    \E line \in L :
        /\ Parsed(line, {W_close, W_exit})
        /\ out' = <<Literal(MsgGoodbye)>>
        /\ file' = save_data(data)
        /\ pc' = "exited"
        /\ ret' = Ok(NoneVal)
        /\ lastOp' = Op("exit", line.line, line.parsed.args)
        /\ prevData' = data
        /\ UNCHANGED data

Main_hello(L) ==
    \E line \in L :
        /\ Parsed(line, {W_hello})
        /\ Printed("hello", line, <<Literal(MsgHello)>>)

Main_add(L) ==
    \E line \in L :
        /\ Parsed(line, {W_add})
        /\ Handled("add", line, add_contact(line.parsed.args, data))

Main_change(L) ==
    \E line \in L :
        /\ Parsed(line, {W_change})
        /\ Handled("change", line, change_contact(line.parsed.args, data))

Main_show(L) ==
    \E line \in L :
        /\ Parsed(line, {W_show})
        /\ Handled("show", line, show_contacts(line.parsed.args, data))

Main_all(L) ==
    \E line \in L :
        /\ Parsed(line, {W_all})
        /\ Printed("all", line, display_contacts(data))

Main_add_birthday(L) ==
    \E line \in L :
        /\ Parsed(line, {W_add_birthday})
        /\ Handled("add-birthday", line, add_birthday(line.parsed.args, data))

Main_show_birthday(L) ==
    \E line \in L :
        /\ Parsed(line, {W_show_birthday})
        /\ Handled("show-birthday", line, show_birthday(line.parsed.args, data))

Main_all_birthdays(L) ==
    \E line \in L :
        /\ Parsed(line, {W_all_birthdays})
        /\ Handled("all-birthdays", line, all_birthdays(data))

KnownWords ==
    {W_close, W_exit, W_hello, W_add, W_change, W_show, W_all, W_add_birthday,
     W_show_birthday, W_all_birthdays}

Main_invalid(L) ==
    \E line \in L :
        /\ pc = "running"
        /\ line.parsed.exc = "none"
        /\ line.parsed.cmd \notin KnownWords
        /\ Printed("invalid", line, <<Literal(MsgInvalidCommand), Literal(MsgHelp)>>)

\* a direct call of a method on the book of the running program
Called(op, d, r) ==
    /\ pc = "running"
    /\ Fits(d)
    /\ data' = d
    /\ ret' = r
    /\ out' = <<>>
    /\ lastOp' = op
    /\ prevData' = data
    /\ UNCHANGED <<file, pc>>

\* book.add_record(Record(name))
Call_add_record ==
    \E name \in Names :
        Called(Op("add_record", <<>>, <<name>>),
               AddressBook_add_record(data, Record_init(name)), Ok(NoneVal))

\* book.delete(name)
Call_delete ==
    \E name \in Names :
        Called(Op("delete", <<>>, <<name>>), AddressBook_delete(data, name), Ok(NoneVal))

\* a Record method called on the record book.find(name) gave
OnRecord(op, name, args, r) ==
    Called(Op(op, <<>>, <<name>> \o args), DictSet(data, name, r.rec),
           [exc |-> r.exc, ret |-> r.ret])

Call_add_phone(P) ==
    \E name \in DictKeys(data), phone \in P :
        OnRecord("add_phone", name, <<phone>>, Record_add_phone(DictGet(data, name), phone))

Call_remove_phone(P) ==
    \E name \in DictKeys(data), phone \in P :
        OnRecord("remove_phone", name, <<phone>>,
                 Record_remove_phone(DictGet(data, name), phone))

Call_edit_phone(P) ==
    \E name \in DictKeys(data), old \in {PhoneA, PhoneSup}, new \in P :
        OnRecord("edit_phone", name, <<old, new>>,
                 Record_edit_phone(DictGet(data, name), old, new))

\* book.get_upcoming_birthday(days), on a day today
Call_get_upcoming_birthday ==
    \E days \in DaysChoices, today \in Todays :
        Called([Op("get_upcoming_birthday", <<>>, <<>>) EXCEPT !.days = days, !.today = today],
               data, AddressBook_get_upcoming_birthday(data, days, today))

Commands(L) ==
    \/ Main_unparsed(L)
    \/ Main_exit(L)
    \/ Main_hello(L)
    \/ Main_add(L)
    \/ Main_change(L)
    \/ Main_show(L)
    \/ Main_all(L)
    \/ Main_add_birthday(L)
    \/ Main_show_birthday(L)
    \/ Main_all_birthdays(L)
    \/ Main_invalid(L)

\* one run of the program on the plain inputs, with add_record and delete
Next ==
    \/ Main_start
    \/ Commands(PlainLines)
    \/ Call_add_record
    \/ Call_delete

Spec == Init /\ [][Next]_vars

\* every input and every method, one run of the program
NextFull ==
    \/ Main_start
    \/ Commands(FullLines)
    \/ Call_add_record
    \/ Call_delete
    \/ Call_add_phone(FullPhones)
    \/ Call_remove_phone(FullPhones)
    \/ Call_edit_phone(FullPhones)
    \/ Call_get_upcoming_birthday

SpecFull == Init /\ [][NextFull]_vars

\* run after run of the program over the same file
NextSession ==
    \/ Main_start
    \/ Main_restart
    \/ Main_unparsed(SessionLines)
    \/ Main_exit(SessionLines)
    \/ Main_add(SessionLines)
    \/ Main_add_birthday(SessionLines)

SpecSession == Init /\ [][NextSession]_vars

\* ------------------------------------------------------------ the claims
\* a phone as the specification wants it: exactly ten ASCII decimal digits
TenDecimalDigits(p) == Len(p) = 10 /\ \A i \in 1..Len(p) : p[i] \in AsciiDigitSet

\* the phone strings stored under name, none when name is not in the book
PhonesUnder(d, name) == IF DictHas(d, name) THEN PhoneStrings(DictGet(d, name)) ELSE <<>>

\* the last step touched no record but the one under name
OthersUnchanged(name) ==
    /\ DictKeys(data) \subseteq DictKeys(prevData) \cup {name}
    /\ \A k \in DictKeys(prevData) \ {name} :
          DictHas(data, k) /\ DictGet(data, k) = DictGet(prevData, k)

\* the steps that read a line typed at the prompt
TypedOps ==
    {"unparsed", "exit", "hello", "add", "change", "show", "all", "add-birthday",
     "show-birthday", "all-birthdays", "invalid"}

IsErrorText(v) == v.type = "str" /\ v.lit \in ErrorMessages

C1_Case ==
    /\ lastOp.op = "add"
    /\ Len(lastOp.args) >= 2
    /\ \A i \in 2..Len(lastOp.args) : TenDecimalDigits(lastOp.args[i])

\* C1: after `add name p1 .. pk` with valid phones the record under name holds
\* its previous phones (none for a new name) followed by p1..pk in the order
\* given, and no other record has changed.
C1_AddAppendsInOrder ==
    C1_Case =>
        /\ DictHas(data, lastOp.args[1])
        /\ PhoneStrings(DictGet(data, lastOp.args[1]))
              = PhonesUnder(prevData, lastOp.args[1]) \o Tail(lastOp.args)
        /\ out = <<Literal(IF DictHas(prevData, lastOp.args[1]) THEN MsgUpdated ELSE MsgAdded)>>
        /\ OthersUnchanged(lastOp.args[1])

\* two different phones added to a record that had one, beside another record
C1_Witness ==
    /\ C1_Case
    /\ Len(lastOp.args) = 3
    /\ lastOp.args[2] # lastOp.args[3]
    /\ PhonesUnder(prevData, lastOp.args[1]) # <<>>
    /\ PhonesUnder(prevData, lastOp.args[1]) # <<lastOp.args[2]>>
    /\ Len(data) = 2

C2_Case ==
    /\ lastOp.op = "change"
    /\ Len(lastOp.args) = 2
    /\ DictHas(prevData, lastOp.args[1])
    /\ TenDecimalDigits(lastOp.args[2])

\* C2: after `change name p` on an existing name with a valid phone the record
\* has exactly the one phone p; its name and birthday and every other record
\* are as before.
C2_ChangeLeavesOnePhone ==
    C2_Case =>
        /\ DictHas(data, lastOp.args[1])
        /\ PhoneStrings(DictGet(data, lastOp.args[1])) = <<lastOp.args[2]>>
        /\ DictGet(data, lastOp.args[1]).birthday = DictGet(prevData, lastOp.args[1]).birthday
        /\ DictGet(data, lastOp.args[1]).name = DictGet(prevData, lastOp.args[1]).name
        /\ Len(data) = Len(prevData)
        /\ OthersUnchanged(lastOp.args[1])

\* a record with two phones and a birthday is changed, beside another record
C2_Witness ==
    /\ C2_Case
    /\ Len(PhonesUnder(prevData, lastOp.args[1])) >= 2
    /\ DictGet(prevData, lastOp.args[1]).birthday # NoneVal
    /\ Len(data) = 2

\* C3: whatever line is typed, the loop goes on to the next prompt, an error
\* having been printed as one message; only close and exit end the session.
C3_OnlyCloseAndExitEndTheSession ==
    /\ pc \in {"exited", "crashed"} => lastOp.op = "exit"
    /\ lastOp.op \in TypedOps \ {"exit"} => pc = "running" /\ Len(out) >= 1

\* C4: every phone stored in every record is a string of exactly ten decimal
\* digits.
C4_StoredPhonesAreTenDigits ==
    \A i \in 1..Len(data) :
        \A j \in 1..Len(data[i].val.phones) : TenDecimalDigits(data[i].val.phones[j].value)

\* the date a stored birthday stands for
BirthdayDate(b) == IF b.value.type = "date" THEN b.value ELSE strptime(b.value.s).ret

\* the next occurrence of the birthday b on or after today
NextOccurrence(b, today) ==
    IF date_lt(PyDate(today.year, b.month, b.day), today)
    THEN PyDate(today.year + 1, b.month, b.day)
    ELSE PyDate(today.year, b.month, b.day)

\* that date, or the Monday after it when it is a Saturday or a Sunday
CongratulationDate(d) ==
    IF date_weekday(d) = 5 THEN date_add_days(d, 2)
    ELSE IF date_weekday(d) = 6 THEN date_add_days(d, 1)
    ELSE d

\* the records the claim wants in the result
Due(d, days, today) ==
    {i \in 1..Len(d) :
        /\ d[i].val.birthday # NoneVal
        /\ date_toordinal(NextOccurrence(BirthdayDate(d[i].val.birthday), today))
              - date_toordinal(today) \in 0..days}

\* C5: get_upcoming_birthday(days) returns exactly one entry for each record
\* whose birthday next occurs within [today, today + days], with that date, or
\* the following Monday when it falls on a weekend, and no other entry.
C5_UpcomingBirthdays ==
    lastOp.op = "get_upcoming_birthday" =>
        /\ ret.exc = "none"
        /\ Len(ret.ret) = Cardinality(Due(data, lastOp.days, lastOp.today))
        /\ \A i \in Due(data, lastOp.days, lastOp.today) :
              \E j \in 1..Len(ret.ret) :
                  /\ ret.ret[j].name = data[i].key
                  /\ ret.ret[j].congratulation_date =
                        date_strftime(CongratulationDate(
                            NextOccurrence(BirthdayDate(data[i].val.birthday), lastOp.today)))

\* C6: the value a Birthday stores is the parsed calendar date, not the string
\* it was made from.
C6_BirthdayStoresDate ==
    \A i \in 1..Len(data) :
        data[i].val.birthday # NoneVal => data[i].val.birthday.value.type = "date"

C7_Case == lastOp.op = "start" /\ lastOp.pc0 = "exited"

\* C7: close or exit, in any letter case, saves the whole book over the file and
\* stops the loop, the next run loads a book equal to it in names, phone lists
\* and birthdays; without a file the run starts from an empty book.
C7_ExitSavesAndLoadRestores ==
    /\ lastOp.op = "exit" => pc = "exited" /\ file # NoFile /\ load_data(file) = data
    /\ C7_Case => data = prevData
    /\ lastOp.op = "start" /\ file = NoFile => data = <<>>
    /\ (/\ lastOp.op \in TypedOps
        /\ str_split(lastOp.line) # <<>>
        /\ str_lower(Head(str_split(lastOp.line))) \in {W_close, W_exit})
          => lastOp.op = "exit" /\ pc = "exited"

\* a run starts from the file of a run that ended with a book of two records,
\* one of them with two different phones and a birthday
C7_Witness ==
    /\ C7_Case
    /\ Len(data) = 2
    /\ \E i \in 1..Len(data) :
          /\ Len(data[i].val.phones) = 2
          /\ data[i].val.phones[1] # data[i].val.phones[2]
          /\ data[i].val.birthday # NoneVal

\* C8: the keys of the book are unique and each record's stored name is the key
\* it is stored under.
C8_KeysUniqueAndNamed ==
    \A i \in 1..Len(data) :
        /\ data[i].val.name.value = data[i].key
        /\ \A j \in 1..Len(data) : data[i].key = data[j].key => i = j

\* add_record has just been called with the name of a record of the book
C8_Witness ==
    /\ lastOp.op = "add_record"
    /\ DictHas(prevData, lastOp.args[1])
    /\ PhonesUnder(prevData, lastOp.args[1]) # <<>>
    /\ Len(data) = 2

C9_Case ==
    /\ lastOp.op = "add"
    /\ Len(lastOp.args) >= 2
    /\ \E i \in 2..Len(lastOp.args) : ~TenDecimalDigits(lastOp.args[i])

\* position in args of the first phone that is not valid
C9_FirstInvalid == Min({i \in 2..Len(lastOp.args) : ~TenDecimalDigits(lastOp.args[i])})

\* C9: `add name p1 .. pk` whose first invalid phone is pi returns the format
\* error, has appended p1..p(i-1) and not pi..pk, and has created the record of
\* a new name all the same.
C9_AddStopsAtFirstInvalid ==
    C9_Case =>
        /\ out = <<Literal(MsgPhoneFormat)>>
        /\ DictHas(data, lastOp.args[1])
        /\ PhoneStrings(DictGet(data, lastOp.args[1]))
              = PhonesUnder(prevData, lastOp.args[1])
                \o SubSeq(lastOp.args, 2, C9_FirstInvalid - 1)

C10_Case ==
    /\ lastOp.op \in {"change", "show", "add-birthday", "show-birthday"}
    /\ Len(out) = 1
    /\ IsErrorText(out[1])

\* C10: a change, show, add-birthday or show-birthday command that returns an
\* error message leaves the whole book as it was.
C10_FailedCommandKeepsBook == C10_Case => data = prevData

\* a change with a malformed phone on a record that has phones
C10_Witness ==
    /\ C10_Case
    /\ lastOp.op = "change"
    /\ out[1].lit = MsgPhoneFormat
    /\ PhonesUnder(prevData, lastOp.args[1]) # <<>>

====
